---- MODULE Spec2Model ----
(***************************************************************************)
(* Relevance scoring and ranking engine of the SHL test recommender        *)
(* (src/app.py): clean_text, calculate_relevance_score and                 *)
(* find_relevant_tests over the catalog SHL_TESTS.                         *)
(*                                                                         *)
(* A Python str is a sequence of characters; a character is a one-letter   *)
(* string, a non-ASCII character is named by its code point.  A float is   *)
(* an exact rational <<numerator, denominator>> with denominator > 0.      *)
(***************************************************************************)
EXTENDS Integers, Sequences, FiniteSets, TLC

VARIABLES
  catalog,         \* the module-level list SHL_TESTS
  raw_query,       \* the query argument as the caller passed it
  max_results,     \* the max_results argument
  query,           \* query after  query = clean_text(query)
  query_terms,     \* query.split()
  i,               \* position of the for loop in the catalog
  score,           \* the score computed by the last pass of the loop
  relevant_tests,  \* the list the loop appends to, sorted in place afterwards
  recommended,     \* relevant_tests[:max_results]
  message,         \* the message of the returned dict
  pc,              \* "idle", "loop", "returned" or "raised"
  texts            \* a raw string followed by the results of clean_text on it

vars == <<catalog, raw_query, max_results, query, query_terms, i, score,
          relevant_tests, recommended, message, pc, texts>>

(* ------------------------------ bounds --------------------------------- *)
\* longest raw string handed to clean_text in SpecClean
MaxStrLen == 3
\* most raw words in a query
MaxQueryWords == 2
\* most items in a synthetic catalog
MaxCatalog == 2
\* explicit max_results arguments range over MinLimit..MaxLimit
MaxLimit == 1
MinLimit == 0 - MaxLimit

(* ---------------------------- characters ------------------------------- *)
UpperAscii ==
  <<"A","B","C","D","E","F","G","H","I","J","K","L","M",
    "N","O","P","Q","R","S","T","U","V","W","X","Y","Z">>

LowerAscii ==
  <<"a","b","c","d","e","f","g","h","i","j","k","l","m",
    "n","o","p","q","r","s","t","u","v","w","x","y","z">>

DigitAscii == <<"0","1","2","3","4","5","6","7","8","9">>

\* characters str.isspace() and the regex class \s accept
Whitespace == {" ", "\t", "\n"}

Range(f) == {f[x] : x \in DOMAIN f}

UpperSet == Range(UpperAscii)

LowerSet == Range(LowerAscii)

DigitSet == Range(DigitAscii)

\* the characters the pattern [^a-zA-Z0-9\s] does not match
KeptSet == LowerSet \cup UpperSet \cup DigitSet \cup Whitespace

\* str.lower() on one character: an ASCII capital maps to its small letter,
\* U+00C9 to U+00E9, U+0130 to "i" followed by the combining dot U+0307
LowerChar(c) ==
  IF c \in UpperSet
  THEN <<LowerAscii[CHOOSE n \in DOMAIN UpperAscii : UpperAscii[n] = c]>>
  ELSE IF c = "U+00C9" THEN <<"U+00E9">>
  ELSE IF c = "U+0130" THEN <<"i", "U+0307">>
  ELSE <<c>>

\* str.lower(): the characters' images, concatenated
RECURSIVE lowerRange(_, _, _)
lowerRange(str, a, b) ==
  IF a > b THEN <<>>
  ELSE IF a = b THEN LowerChar(str[a])
  ELSE LET mid == (a + b) \div 2
       IN lowerRange(str, a, mid) \o lowerRange(str, mid + 1, b)

lower(str) == lowerRange(str, 1, Len(str))

KeptChar(c) == c \in KeptSet

\* re.sub without the call of lower()
clean_text_NoLower(str) == SelectSeq(str, KeptChar)

\* def clean_text(text): re.sub(r'[^a-zA-Z0-9\s]', '', text.lower())
clean_text(str) == SelectSeq(lower(str), KeptChar)

\* str.split(): the maximal runs of non-whitespace characters, in order
RECURSIVE splitFrom(_, _, _)
splitFrom(str, cur, acc) ==
  IF str = <<>>
  THEN IF cur = <<>> THEN acc ELSE Append(acc, cur)
  ELSE IF Head(str) \in Whitespace
       THEN splitFrom(Tail(str), <<>>, IF cur = <<>> THEN acc ELSE Append(acc, cur))
       ELSE splitFrom(Tail(str), Append(cur, Head(str)), acc)

split(str) == splitFrom(str, <<>>, <<>>)

\* ' '.join(words)
RECURSIVE join(_)
join(words) ==
  IF words = <<>> THEN <<>>
  ELSE IF Len(words) = 1 THEN words[1]
  ELSE words[1] \o <<" ">> \o join(Tail(words))

\* Python's  a in b  on two strings
IsSubstring(a, b) ==
  \E n \in 0..(Len(b) - Len(a)) : SubSeq(b, n + 1, n + Len(a)) = a

\* b.startswith(a)
startswith(b, a) == Len(a) <= Len(b) /\ SubSeq(b, 1, Len(a)) = a

(* ------------------------------ catalog -------------------------------- *)
BASE_CATALOG_URL == "https://www.shl.com/solutions/products/product-catalog/"

SHL_TESTS ==
  <<
    [name |-> <<"O","P","Q","3","2">>,
     url |-> BASE_CATALOG_URL, remote_testing |-> TRUE, adaptive_irt |-> TRUE,
     description |-> <<"P","e","r","s","o","n","a","l","i","t","y"," ","q","u","e","s","t","i","o","n","n","a","i","r","e"," ","m","e","a","s","u","r","i","n","g"," ","3","2"," ","c","h","a","r","a","c","t","e","r","i","s","t","i","c","s"," ","f","o","r"," ","w","o","r","k","p","l","a","c","e"," ","b","e","h","a","v","i","o","r"," ","a","n","d"," ","p","r","e","f","e","r","e","n","c","e","s">>,
     keywords |-> <<<<"p","e","r","s","o","n","a","l","i","t","y">>,
                    <<"l","e","a","d","e","r","s","h","i","p">>,
                    <<"b","e","h","a","v","i","o","r">>,
                    <<"t","r","a","i","t","s">>,
                    <<"c","h","a","r","a","c","t","e","r">>,
                    <<"m","a","n","a","g","e","m","e","n","t">>,
                    <<"w","o","r","k","p","l","a","c","e"," ","b","e","h","a","v","i","o","r">>>>],
    [name |-> <<"V","e","r","i","f","y"," ","G","+">>,
     url |-> BASE_CATALOG_URL, remote_testing |-> TRUE, adaptive_irt |-> TRUE,
     description |-> <<"C","o","g","n","i","t","i","v","e"," ","a","b","i","l","i","t","y"," ","a","s","s","e","s","s","m","e","n","t"," ","m","e","a","s","u","r","i","n","g"," ","n","u","m","e","r","i","c","a","l",","," ","v","e","r","b","a","l",","," ","a","n","d"," ","l","o","g","i","c","a","l"," ","r","e","a","s","o","n","i","n","g"," ","a","b","i","l","i","t","i","e","s">>,
     keywords |-> <<<<"c","o","g","n","i","t","i","v","e">>,
                    <<"n","u","m","e","r","i","c","a","l">>,
                    <<"v","e","r","b","a","l">>,
                    <<"l","o","g","i","c","a","l">>,
                    <<"r","e","a","s","o","n","i","n","g">>,
                    <<"a","p","t","i","t","u","d","e">>,
                    <<"p","r","o","b","l","e","m"," ","s","o","l","v","i","n","g">>>>],
    [name |-> <<"V","e","r","i","f","y"," ","N","u","m","e","r","i","c","a","l">>,
     url |-> BASE_CATALOG_URL, remote_testing |-> TRUE, adaptive_irt |-> TRUE,
     description |-> <<"A","s","s","e","s","s","m","e","n","t"," ","f","o","c","u","s","i","n","g"," ","o","n"," ","n","u","m","e","r","i","c","a","l"," ","r","e","a","s","o","n","i","n","g"," ","a","n","d"," ","d","a","t","a"," ","i","n","t","e","r","p","r","e","t","a","t","i","o","n"," ","s","k","i","l","l","s">>,
     keywords |-> <<<<"n","u","m","e","r","i","c","a","l">>,
                    <<"m","a","t","h","e","m","a","t","i","c","s">>,
                    <<"d","a","t","a">>,
                    <<"a","n","a","l","y","s","i","s">>,
                    <<"q","u","a","n","t","i","t","a","t","i","v","e">>,
                    <<"c","a","l","c","u","l","a","t","i","o","n","s">>>>],
    [name |-> <<"V","e","r","i","f","y"," ","V","e","r","b","a","l">>,
     url |-> BASE_CATALOG_URL, remote_testing |-> TRUE, adaptive_irt |-> TRUE,
     description |-> <<"A","s","s","e","s","s","m","e","n","t"," ","o","f"," ","v","e","r","b","a","l"," ","r","e","a","s","o","n","i","n","g"," ","a","n","d"," ","c","o","m","p","r","e","h","e","n","s","i","o","n"," ","a","b","i","l","i","t","i","e","s">>,
     keywords |-> <<<<"v","e","r","b","a","l">>,
                    <<"l","a","n","g","u","a","g","e">>,
                    <<"c","o","m","p","r","e","h","e","n","s","i","o","n">>,
                    <<"c","o","m","m","u","n","i","c","a","t","i","o","n">>,
                    <<"r","e","a","d","i","n","g">>>>],
    [name |-> <<"V","e","r","i","f","y"," ","M","e","c","h","a","n","i","c","a","l">>,
     url |-> BASE_CATALOG_URL, remote_testing |-> TRUE, adaptive_irt |-> TRUE,
     description |-> <<"T","e","s","t","s"," ","u","n","d","e","r","s","t","a","n","d","i","n","g"," ","o","f"," ","m","e","c","h","a","n","i","c","a","l"," ","c","o","n","c","e","p","t","s"," ","a","n","d"," ","p","h","y","s","i","c","a","l"," ","p","r","i","n","c","i","p","l","e","s">>,
     keywords |-> <<<<"m","e","c","h","a","n","i","c","a","l">>,
                    <<"e","n","g","i","n","e","e","r","i","n","g">>,
                    <<"t","e","c","h","n","i","c","a","l">>,
                    <<"p","h","y","s","i","c","s">>,
                    <<"m","a","c","h","i","n","e","r","y">>>>],
    [name |-> <<"C","o","d","i","n","g"," ","P","r","o">>,
     url |-> BASE_CATALOG_URL, remote_testing |-> TRUE, adaptive_irt |-> TRUE,
     description |-> <<"T","e","c","h","n","i","c","a","l"," ","a","s","s","e","s","s","m","e","n","t"," ","f","o","r"," ","s","o","f","t","w","a","r","e"," ","d","e","v","e","l","o","p","e","r","s"," ","t","e","s","t","i","n","g"," ","c","o","d","i","n","g"," ","s","k","i","l","l","s"," ","a","n","d"," ","p","r","o","b","l","e","m","-","s","o","l","v","i","n","g">>,
     keywords |-> <<<<"p","r","o","g","r","a","m","m","i","n","g">>,
                    <<"c","o","d","i","n","g">>,
                    <<"s","o","f","t","w","a","r","e">>,
                    <<"d","e","v","e","l","o","p","m","e","n","t">>,
                    <<"t","e","c","h","n","i","c","a","l">>,
                    <<"I","T">>>>],
    [name |-> <<"S","a","l","e","s"," ","A","s","s","e","s","s","m","e","n","t">>,
     url |-> BASE_CATALOG_URL, remote_testing |-> TRUE, adaptive_irt |-> TRUE,
     description |-> <<"C","o","m","p","r","e","h","e","n","s","i","v","e"," ","a","s","s","e","s","s","m","e","n","t"," ","f","o","r"," ","s","a","l","e","s"," ","r","o","l","e","s"," ","m","e","a","s","u","r","i","n","g"," ","s","a","l","e","s"," ","a","p","t","i","t","u","d","e"," ","a","n","d"," ","s","k","i","l","l","s">>,
     keywords |-> <<<<"s","a","l","e","s">>,
                    <<"c","u","s","t","o","m","e","r"," ","s","e","r","v","i","c","e">>,
                    <<"b","u","s","i","n","e","s","s"," ","d","e","v","e","l","o","p","m","e","n","t">>,
                    <<"n","e","g","o","t","i","a","t","i","o","n">>>>],
    [name |-> <<"C","a","l","l"," ","C","e","n","t","e","r"," ","A","s","s","e","s","s","m","e","n","t">>,
     url |-> BASE_CATALOG_URL, remote_testing |-> TRUE, adaptive_irt |-> TRUE,
     description |-> <<"A","s","s","e","s","s","m","e","n","t"," ","f","o","r"," ","c","o","n","t","a","c","t"," ","c","e","n","t","e","r"," ","r","o","l","e","s"," ","m","e","a","s","u","r","i","n","g"," ","c","u","s","t","o","m","e","r"," ","s","e","r","v","i","c","e"," ","s","k","i","l","l","s">>,
     keywords |-> <<<<"c","u","s","t","o","m","e","r"," ","s","e","r","v","i","c","e">>,
                    <<"c","a","l","l"," ","c","e","n","t","e","r">>,
                    <<"c","o","m","m","u","n","i","c","a","t","i","o","n">>,
                    <<"s","u","p","p","o","r","t">>>>],
    [name |-> <<"W","o","r","k","p","l","a","c","e"," ","P","e","r","s","o","n","a","l","i","t","y"," ","I","n","v","e","n","t","o","r","y">>,
     url |-> BASE_CATALOG_URL, remote_testing |-> TRUE, adaptive_irt |-> TRUE,
     description |-> <<"M","e","a","s","u","r","e","s"," ","w","o","r","k","-","r","e","l","a","t","e","d"," ","p","e","r","s","o","n","a","l","i","t","y"," ","t","r","a","i","t","s"," ","a","n","d"," ","b","e","h","a","v","i","o","r","a","l"," ","p","r","e","f","e","r","e","n","c","e","s">>,
     keywords |-> <<<<"p","e","r","s","o","n","a","l","i","t","y">>,
                    <<"w","o","r","k","p","l","a","c","e">>,
                    <<"b","e","h","a","v","i","o","r">>,
                    <<"t","r","a","i","t","s">>,
                    <<"p","r","o","f","e","s","s","i","o","n","a","l">>>>],
    [name |-> <<"R","e","m","o","t","e"," ","W","o","r","k"," ","A","s","s","e","s","s","m","e","n","t">>,
     url |-> BASE_CATALOG_URL, remote_testing |-> TRUE, adaptive_irt |-> TRUE,
     description |-> <<"E","v","a","l","u","a","t","e","s"," ","c","a","p","a","b","i","l","i","t","i","e","s"," ","a","n","d"," ","p","r","e","f","e","r","e","n","c","e","s"," ","f","o","r"," ","r","e","m","o","t","e"," ","w","o","r","k"," ","e","n","v","i","r","o","n","m","e","n","t","s">>,
     keywords |-> <<<<"r","e","m","o","t","e"," ","w","o","r","k">>,
                    <<"v","i","r","t","u","a","l">>,
                    <<"w","o","r","k"," ","f","r","o","m"," ","h","o","m","e">>,
                    <<"d","i","s","t","r","i","b","u","t","e","d"," ","t","e","a","m","s">>>>],
    [name |-> <<"L","e","a","d","e","r","s","h","i","p"," ","A","s","s","e","s","s","m","e","n","t">>,
     url |-> BASE_CATALOG_URL, remote_testing |-> TRUE, adaptive_irt |-> TRUE,
     description |-> <<"C","o","m","p","r","e","h","e","n","s","i","v","e"," ","a","s","s","e","s","s","m","e","n","t"," ","o","f"," ","l","e","a","d","e","r","s","h","i","p"," ","p","o","t","e","n","t","i","a","l"," ","a","n","d"," ","c","a","p","a","b","i","l","i","t","i","e","s">>,
     keywords |-> <<<<"l","e","a","d","e","r","s","h","i","p">>,
                    <<"m","a","n","a","g","e","m","e","n","t">>,
                    <<"e","x","e","c","u","t","i","v","e">>,
                    <<"s","t","r","a","t","e","g","i","c"," ","t","h","i","n","k","i","n","g">>>>],
    [name |-> <<"G","r","a","d","u","a","t","e"," ","A","s","s","e","s","s","m","e","n","t">>,
     url |-> BASE_CATALOG_URL, remote_testing |-> TRUE, adaptive_irt |-> TRUE,
     description |-> <<"A","s","s","e","s","s","m","e","n","t"," ","s","u","i","t","e"," ","d","e","s","i","g","n","e","d"," ","f","o","r"," ","g","r","a","d","u","a","t","e"," ","r","e","c","r","u","i","t","m","e","n","t"," ","a","n","d"," ","d","e","v","e","l","o","p","m","e","n","t">>,
     keywords |-> <<<<"g","r","a","d","u","a","t","e">>,
                    <<"e","n","t","r","y"," ","l","e","v","e","l">>,
                    <<"c","a","m","p","u","s"," ","r","e","c","r","u","i","t","m","e","n","t">>,
                    <<"e","a","r","l","y"," ","c","a","r","e","e","r">>>>]
  >>


\* items of the described shape besides the bundled ones: unique names that
\* carry at least one token, non-empty keywords, keywords with capitals and
\* punctuation
SampleItems ==
  {
    [name |-> <<"S","a","l","e","s"," ","P","r","o">>,
     url |-> BASE_CATALOG_URL, remote_testing |-> TRUE, adaptive_irt |-> FALSE,
     description |-> <<"S","a","l","e","s"," ","s","k","i","l","l","s">>,
     keywords |-> <<<<"s","a","l","e","s">>, <<"n","e","g","o","t","i","a","t","i","o","n">>>>],
    [name |-> <<"S","a","l","e","s","-","F","o","r","c","e">>,
     url |-> BASE_CATALOG_URL, remote_testing |-> TRUE, adaptive_irt |-> FALSE,
     description |-> <<"C","R","M">>,
     keywords |-> <<<<"S","a","l","e","s">>, <<"n","e","g","o","-","t","i","a","t","i","o","n">>>>],
    [name |-> <<"s","a","l","e","s">>,
     url |-> BASE_CATALOG_URL, remote_testing |-> TRUE, adaptive_irt |-> FALSE,
     description |-> <<>>,
     keywords |-> <<<<"s","a","l","e","s">>>>]
  }

InjectiveSeqs(S, n) ==
  {q \in UNION {[1..m -> S] : m \in 0..n} :
     \A a, b \in DOMAIN q : a # b => q[a] # q[b]}

\* the catalogs the ranker is run against
Catalogs == {SHL_TESTS} \cup InjectiveSeqs(SampleItems, MaxCatalog)

RawWords ==
  {<<"s","a","l","e","s">>,
   <<"s","a","l","e">>,
   <<"p","r","o">>,
   <<"n","e","g","o","t","i","a","t","i","o","n">>,
   <<"+">>}

AllItems == Range(SHL_TESTS) \cup SampleItems

\* the query strings a caller passes: up to MaxQueryWords raw words joined by
\* blanks, every item name, and strings without any token
Queries ==
  {join(ws) : ws \in UNION {[1..m -> RawWords] : m \in 0..MaxQueryWords}}
    \cup {it.name : it \in AllItems}
    \cup {<<" ">>, <<"+","!">>, <<" ","\t">>}
    \cup {<<"a","s","s","e","s","s","m","e","n","t"," ","b","e","h","a","v","i","o","r">>,
          <<"p","e","r","s","o","n","a","l","i","t","y"," ","l","e","a","d","e","r","s","h","i","p">>,
          <<"x","y","z","z","y"," ","n","o","n","e","x","i","s","t","e","n","t"," ","g","i","b","b","e","r","i","s","h">>}

\* max_results of find_relevant_tests defaults to 10
DefaultLimit == 10

Limits == (MinLimit..MaxLimit) \cup {DefaultLimit}

\* raw strings for clean_text
Sigma == {"a", "Z", "7", " ", "\t", "-", "U+00C9", "U+0130"}

Strings == UNION {[1..m -> Sigma] : m \in 0..MaxStrLen}

(* ----------------------------- arithmetic ------------------------------ *)
RECURSIVE GCD(_, _)
GCD(a, b) == IF b = 0 THEN a ELSE GCD(b, a % b)

\* the rational n/d in lowest terms, d > 0
Frac(n, d) == LET g == GCD(n, d) IN IF n = 0 THEN <<0, 1>> ELSE <<n \div g, d \div g>>

Add(a, b) == Frac(a[1] * b[2] + b[1] * a[2], a[2] * b[2])

Mul(a, b) == Frac(a[1] * b[1], a[2] * b[2])

Less(a, b) == a[1] * b[2] < b[1] * a[2]

Leq(a, b) == a[1] * b[2] <= b[1] * a[2]

Zero == <<0, 1>>

(* ------------------------ calculate_relevance_score -------------------- *)
\* test_text = clean_text(description + ' ' + ' '.join(keywords) + ' ' + name)
test_text(test) ==
  clean_text(test.description \o <<" ">> \o join(test.keywords) \o <<" ">> \o test.name)

\* the membership test on the keyword as written in the catalog
RECURSIVE keyword_matches_Raw(_, _)
keyword_matches_Raw(terms, keywords) ==
  IF keywords = <<>> THEN 0
  ELSE (IF Head(keywords) \in Range(terms) THEN 1 ELSE 0)
         + keyword_matches_Raw(terms, Tail(keywords))

\* sum(clean_text(keyword) in query_terms for keyword in test['keywords'])
RECURSIVE keyword_matches(_, _)
keyword_matches(terms, keywords) ==
  IF keywords = <<>> THEN 0
  ELSE (IF clean_text(Head(keywords)) \in Range(terms) THEN 1 ELSE 0)
         + keyword_matches(terms, Tail(keywords))

\* score += (keyword_matches / len(test['keywords'])) * 0.5
KeywordComponent(terms, test) ==
  Mul(Frac(keyword_matches(terms, test.keywords), Len(test.keywords)), <<1, 2>>)

\* any(keyword for keyword in test['keywords'] if keyword.startswith(term))
StemMatch(term, test) ==
  \E k \in DOMAIN test.keywords :
     startswith(test.keywords[k], term) /\ test.keywords[k] # <<>>

\* a stem match worth a whole point
TermPoints_FullStem(term, test, haystack) ==
  IF Len(term) > 3
  THEN Add(IF IsSubstring(term, haystack) THEN <<1, 1>> ELSE Zero,
           IF StemMatch(term, test) THEN <<1, 1>> ELSE Zero)
  ELSE Zero

\* what one pass of the loop over query_terms adds to term_matches
TermPoints(term, test, haystack) ==
  IF Len(term) > 3
  THEN Add(IF IsSubstring(term, haystack) THEN <<1, 1>> ELSE Zero,
           IF StemMatch(term, test) THEN <<1, 2>> ELSE Zero)
  ELSE Zero

RECURSIVE term_matches(_, _, _)
term_matches(terms, test, haystack) ==
  IF terms = <<>> THEN Zero
  ELSE Add(TermPoints(Head(terms), test, haystack),
           term_matches(Tail(terms), test, haystack))

\* score += (term_matches / len(query_terms)) * 0.3
PartialComponent(terms, test) ==
  Mul(Mul(term_matches(terms, test, test_text(test)), <<1, Len(terms)>>), <<3, 10>>)

\* the bonus only for a term equal to the whole name
NameBonus_WholeName(terms, test) ==
  IF \E t \in DOMAIN terms : terms[t] = clean_text(test.name)
  THEN <<1, 5>> ELSE Zero

\* if any(term in clean_text(test['name']) for term in query_terms): score += 0.2
NameBonus(terms, test) ==
  IF \E t \in DOMAIN terms : IsSubstring(terms[t], clean_text(test.name))
  THEN <<1, 5>> ELSE Zero

\* the two divisions raise ZeroDivisionError on an empty list
RaisesZeroDivision(terms, test) == Len(test.keywords) = 0 \/ Len(terms) = 0

calculate_relevance_score(terms, test) ==
  Add(Add(Add(Zero, KeywordComponent(terms, test)), PartialComponent(terms, test)),
      NameBonus(terms, test))

(* --------------------------- find_relevant_tests ----------------------- *)
\* the filter written as  score >= 0
Keep_NonNegative(sc) == Leq(Zero, sc)

\* if score > 0:
Keep(sc) == Less(Zero, sc)

\* an insertion that puts an element in front of its equals
InsertDesc_BeforeEqual(sorted, x) ==
  LET ahead == {p \in DOMAIN sorted : Less(x.relevance_score, sorted[p].relevance_score)}
      n == IF ahead = {} THEN 0 ELSE CHOOSE p \in ahead : \A r \in ahead : r <= p
  IN SubSeq(sorted, 1, n) \o <<x>> \o SubSeq(sorted, n + 1, Len(sorted))

\* list.sort(key=relevance_score, reverse=True) is stable: an element goes
\* behind every element whose key is not smaller
InsertDesc(sorted, x) ==
  LET behind == {p \in DOMAIN sorted : Leq(x.relevance_score, sorted[p].relevance_score)}
      n == IF behind = {} THEN 0 ELSE CHOOSE p \in behind : \A r \in behind : r <= p
  IN SubSeq(sorted, 1, n) \o <<x>> \o SubSeq(sorted, n + 1, Len(sorted))

\* the sort without reverse=True
RECURSIVE SortDesc_Ascending(_)
SortDesc_Ascending(list) ==
  IF list = <<>> THEN <<>>
  ELSE LET sorted == SortDesc_Ascending(SubSeq(list, 1, Len(list) - 1))
           x == list[Len(list)]
           ahead == {p \in DOMAIN sorted : Leq(sorted[p].relevance_score, x.relevance_score)}
           n == IF ahead = {} THEN 0 ELSE CHOOSE p \in ahead : \A r \in ahead : r <= p
       IN SubSeq(sorted, 1, n) \o <<x>> \o SubSeq(sorted, n + 1, Len(sorted))

RECURSIVE SortDesc(_)
SortDesc(list) ==
  IF list = <<>> THEN <<>>
  ELSE InsertDesc(SortDesc(SubSeq(list, 1, Len(list) - 1)), list[Len(list)])

\* the result without the truncation
Slice_NoLimit(list, m) == list

\* list[:m]
Slice(list, m) ==
  IF m >= 0
  THEN SubSeq(list, 1, IF m < Len(list) THEN m ELSE Len(list))
  ELSE SubSeq(list, 1, IF Len(list) + m > 0 THEN Len(list) + m ELSE 0)

\* f'Found {len(recommended)} relevant tests.'
FoundMessage(n) == <<"Found ", n, " relevant tests.">>

NoText == <<>>

Idle ==
  /\ raw_query = NoText /\ max_results = DefaultLimit /\ query = NoText
  /\ query_terms = <<>> /\ i = 0 /\ score = Zero /\ relevant_tests = <<>>
  /\ recommended = <<>> /\ message = <<>> /\ pc = "idle"

Init ==
  /\ catalog \in Catalogs
  /\ Idle
  /\ texts = <<>>

\* a caller invokes find_relevant_tests(q, m): the query is cleaned and split
Call(q, m) ==
  /\ pc = "idle"
  /\ raw_query' = q
  /\ max_results' = m
  /\ query' = clean_text(q)
  /\ query_terms' = split(query')
  /\ relevant_tests' = <<>>
  /\ i' = 1
  /\ pc' = "loop"
  /\ score' = Zero /\ recommended' = <<>> /\ message' = <<>>
  /\ UNCHANGED <<catalog, texts>>

\* one pass of  for test in SHL_TESTS
ScoreItem ==
  /\ pc = "loop"
  /\ i <= Len(catalog)
  /\ LET test == catalog[i] IN
       IF RaisesZeroDivision(query_terms, test)
       THEN /\ pc' = "raised"
            /\ UNCHANGED <<score, relevant_tests, i>>
       ELSE /\ score' = calculate_relevance_score(query_terms, test)
            /\ relevant_tests' =
                 IF Keep(score')
                 THEN Append(relevant_tests,
                             [name |-> test.name, url |-> test.url,
                              remote_testing |-> test.remote_testing,
                              adaptive_irt |-> test.adaptive_irt,
                              description |-> test.description,
                              keywords |-> test.keywords,
                              relevance_score |-> score'])
                 ELSE relevant_tests
            /\ i' = i + 1
            /\ pc' = "loop"
  /\ UNCHANGED <<catalog, raw_query, max_results, query, query_terms,
                 recommended, message, texts>>

\* after the loop: sort, truncate, build the result
SortAndReturn ==
  /\ pc = "loop"
  /\ i > Len(catalog)
  /\ relevant_tests' = SortDesc(relevant_tests)
  /\ recommended' = Slice(relevant_tests', max_results)
  /\ message' = FoundMessage(Len(recommended'))
  /\ pc' = "returned"
  /\ UNCHANGED <<catalog, raw_query, max_results, query, query_terms, i, score,
                 texts>>

\* the caller has taken the result or the exception; the locals are gone
Finish ==
  /\ pc \in {"returned", "raised"}
  /\ raw_query' = NoText /\ max_results' = DefaultLimit /\ query' = NoText
  /\ query_terms' = <<>> /\ i' = 0 /\ score' = Zero /\ relevant_tests' = <<>>
  /\ recommended' = <<>> /\ message' = <<>> /\ pc' = "idle"
  /\ UNCHANGED <<catalog, texts>>

Next ==
  \/ \E q \in Queries, m \in Limits : Call(q, m)
  \/ ScoreItem
  \/ SortAndReturn
  \/ Finish

Spec == Init /\ [][Next]_vars

(* ------------------- clean_text as a function on its own --------------- *)
InitClean ==
  /\ catalog = <<>>
  /\ Idle
  /\ texts \in {<<str>> : str \in Strings}

\* clean_text applied to the last string, at most twice in a row
CleanText ==
  /\ Len(texts) < 3
  /\ texts' = Append(texts, clean_text(texts[Len(texts)]))
  /\ UNCHANGED <<catalog, raw_query, max_results, query, query_terms, i, score,
                 relevant_tests, recommended, message, pc>>

NextClean == CleanText

SpecClean == InitClean /\ [][NextClean]_vars

(* ------------------------------ properties ----------------------------- *)
Returned == pc = "returned"

Ended == pc \in {"returned", "raised"}

\* the loop has just scored the item at position i - 1
Scored == pc = "loop" /\ i > 1

RECURSIVE ScoresOf(_, _)
ScoresOf(terms, tests) ==
  IF tests = <<>> THEN <<>>
  ELSE <<calculate_relevance_score(terms, Head(tests))>> \o ScoresOf(terms, Tail(tests))

\* names are unique in a catalog
CatalogIndex(name) == CHOOSE k \in DOMAIN catalog : catalog[k].name = name

InOutput(k) == \E r \in DOMAIN recommended : recommended[r].name = catalog[k].name

\* place of item k among the items with a positive score, by falling score,
\* equal scores in catalog order
Position(scores, k) ==
  1 + Cardinality({j \in DOMAIN scores :
                     /\ Less(Zero, scores[j])
                     /\ \/ Less(scores[k], scores[j])
                        \/ scores[j] = scores[k] /\ j < k})

\* C1: a query without tokens returns an empty recommendation list and a
\* message, raises nothing, and the empty string gives "Found 0 relevant tests."
C1_EmptyQueryReturnsEmpty ==
  (Ended /\ split(clean_text(raw_query)) = <<>>) =>
     /\ pc = "returned"
     /\ recommended = <<>>
     /\ message # <<>>
     /\ (raw_query = <<>> => message = FoundMessage(0))

\* C2: with at least one token, every returned item has a positive score, and
\* every catalog item that is not returned scored <= 0 or stands beyond
\* max_results among the positive items in falling order of score
C2_MonotonicFiltering ==
  (Returned /\ query_terms # <<>>) =>
     LET scores == ScoresOf(query_terms, catalog) IN
       /\ \A r \in DOMAIN recommended : Less(Zero, recommended[r].relevance_score)
       /\ \A k \in DOMAIN catalog :
            ~InOutput(k) => \/ Leq(scores[k], Zero)
                            \/ Position(scores, k) > max_results

\* an item with score 0 was dropped and a positive one was cut off by the limit
C2_Witness ==
  /\ Returned /\ query_terms # <<>> /\ max_results > 0
  /\ Len(recommended) = max_results
  /\ Len(relevant_tests) > max_results
  /\ Len(relevant_tests) < Len(catalog)

\* C3: with at least one token, the returned list is in non-increasing order
\* of relevance_score
C3_SortedDescending ==
  (Returned /\ query_terms # <<>>) =>
     \A r \in 1..(Len(recommended) - 1) :
        Leq(recommended[r + 1].relevance_score, recommended[r].relevance_score)

\* two returned neighbours with different scores stand in the other order in
\* the catalog
C3_Witness ==
  /\ Returned /\ query_terms # <<>>
  /\ \E r \in 1..(Len(recommended) - 1) :
        /\ Less(recommended[r + 1].relevance_score, recommended[r].relevance_score)
        /\ CatalogIndex(recommended[r + 1].name) < CatalogIndex(recommended[r].name)

\* C4 as stated: for every integer max_results, negative ones included, at
\* most max_results recommendations are returned
C4_AtMostLimit == Returned => Len(recommended) <= max_results

\* C4 amended: for every max_results >= 0 at most max_results recommendations
\* are returned
C4_AtMostNonNegativeLimit ==
  (Returned /\ max_results >= 0) => Len(recommended) <= max_results

\* more than the default 10 items scored above 0 and 10 were returned
C4_Witness ==
  /\ Returned /\ max_results = DefaultLimit
  /\ Len(relevant_tests) > DefaultLimit
  /\ Len(recommended) = DefaultLimit

\* the points the claim gives a term: 1 for a substring of the haystack plus
\* 1/2 when a normalized keyword starts with the term, for terms over 3 long
ClaimedTermPoints(term, test) ==
  IF Len(term) > 3
  THEN Add(IF IsSubstring(term, test_text(test)) THEN <<1, 1>> ELSE Zero,
           IF \E k \in DOMAIN test.keywords : startswith(clean_text(test.keywords[k]), term)
           THEN <<1, 2>> ELSE Zero)
  ELSE Zero

RECURSIVE ClaimedPoints(_, _)
ClaimedPoints(terms, test) ==
  IF terms = <<>> THEN Zero
  ELSE Add(ClaimedTermPoints(Head(terms), test), ClaimedPoints(Tail(terms), test))

\* C5: the partial/stem component is 0.3 * (sum of the terms' points) /
\* (number of terms), the stem half-point judged on the normalized keywords
C5_PartialComponent ==
  Scored =>
     PartialComponent(query_terms, catalog[i - 1])
       = Mul(<<3, 10>>, Mul(ClaimedPoints(query_terms, catalog[i - 1]), <<1, Len(query_terms)>>))

\* C6: the keyword-exact component is 0.5 * (keywords whose normalization
\* equals a query term) / (number of keywords); it is 0.25 for the keywords
\* sales, negotiation and the query sales; the score is at least the component
C6_KeywordComponent ==
  Scored =>
     LET test == catalog[i - 1]
         hits == {k \in DOMAIN test.keywords :
                    \E n \in DOMAIN query_terms : query_terms[n] = clean_text(test.keywords[k])}
         component == KeywordComponent(query_terms, test)
     IN /\ component[1] * (2 * Len(test.keywords)) = Cardinality(hits) * component[2]
        /\ Leq(component, score)
        /\ (test.keywords = <<<<"s","a","l","e","s">>, <<"n","e","g","o","t","i","a","t","i","o","n">>>>
              /\ query_terms = <<<<"s","a","l","e","s">>>>) => component = <<1, 4>>

\* the scenario of the claim, and an item whose keyword matches only after
\* normalization
C6_Witness ==
  /\ Scored
  /\ catalog[i - 1].keywords = <<<<"s","a","l","e","s">>, <<"n","e","g","o","t","i","a","t","i","o","n">>>>
  /\ query_terms = <<<<"s","a","l","e","s">>>>
  /\ KeywordComponent(query_terms, catalog[i - 1]) = <<1, 4>>
  /\ Leq(<<1, 4>>, score)

\* C7: 0 <= score <= 1.2 for every item with keywords and every non-empty
\* list of query terms
C7_ScoreBounds ==
  Scored => Leq(Zero, score) /\ Leq(score, <<6, 5>>)

\* all three components at their maximum: 0.5 + 0.45 + 0.2
C7_Witness == Scored /\ score = <<23, 20>>

\* C8: a query equal to the name of a catalog item gives that item a score
\* of at least 0.2
C8_NameQueryScores ==
  Ended =>
     \A k \in DOMAIN catalog :
        raw_query = catalog[k].name =>
           /\ pc = "returned"
           /\ \E r \in DOMAIN relevant_tests :
                 /\ relevant_tests[r].name = catalog[k].name
                 /\ Leq(<<1, 5>>, relevant_tests[r].relevance_score)

\* the named item scores less than 0.2 without the name bonus
C8_Witness ==
  /\ Returned
  /\ \E r \in DOMAIN relevant_tests :
        /\ relevant_tests[r].name = raw_query
        /\ Less(relevant_tests[r].relevance_score, <<2, 5>>)

\* C9: clean_text(clean_text(x)) = clean_text(x), and the result holds only
\* small ASCII letters, digits and whitespace
C9_CleanIdempotent ==
  /\ Len(texts) >= 2 =>
        \A n \in DOMAIN texts[2] : texts[2][n] \in LowerSet \cup DigitSet \cup Whitespace
  /\ Len(texts) = 3 => texts[3] = texts[2]

\* clean_text ran twice on a string with a capital, a character that is
\* deleted, and one whose small form is two characters
C9_Witness ==
  /\ Len(texts) = 3
  /\ texts[1] = <<"Z", "-", "U+0130">>
  /\ texts[2] = <<"z", "i">>

\* C10: returned items of equal relevance_score keep their catalog order
C10_StableTies ==
  Returned =>
     \A r, q \in DOMAIN recommended :
        (r < q /\ recommended[r].relevance_score = recommended[q].relevance_score)
           => CatalogIndex(recommended[r].name) < CatalogIndex(recommended[q].name)

\* a tie behind a higher score that stood later in the catalog
C10_Witness ==
  /\ Returned
  /\ \E r, q \in DOMAIN recommended :
        /\ r < q
        /\ recommended[r].relevance_score = recommended[q].relevance_score
  /\ \E r \in 1..(Len(recommended) - 1) :
        CatalogIndex(recommended[r + 1].name) < CatalogIndex(recommended[r].name)

====
